---- MODULE Spec2Model ----
(***************************************************************************)
(* TorGuardIPs: src/torguard.py.                                           *)
(*                                                                         *)
(* TorGuardIPManager.process downloads the provider's domain -> addresses  *)
(* mapping, loads the CSV of previously seen addresses, merges the new     *)
(* observations into it and rewrites the CSV.  Text (addresses, domains,   *)
(* formatted timestamps, the CSV file) is a sequence of one-character      *)
(* strings, so that writing and reading the file are real conversions.     *)
(***************************************************************************)
EXTENDS Integers, Sequences, FiniteSets, TLC

(***************************************************************************)
(* Bounds of the model.                                                    *)
(***************************************************************************)
MaxObs == 2        \* longest observation list a download returns
MaxTime == 1       \* clock readings are the seconds 0 .. MaxTime
MaxRuns == 2       \* runs of process per manager slot
MaxFieldLen == 2   \* longest field of the stores of SpecCsv
MaxObsConc == 1    \* longest observation list of a download in SpecConc

(***************************************************************************)
(* Characters and text.                                                    *)
(***************************************************************************)
DELIM == ","
QUOTE == "\""
CR == "\r"
LF == "\n"
EOL == "EOL"                  \* the reader's end-of-line pseudo character
None == <<"None">>            \* Python's None (not a text: no such character)

Digits == <<"0", "1", "2", "3", "4", "5", "6", "7", "8", "9">>

\* "ip_address", "domain", "first_seen", "last_seen"
F_IP == <<"i", "p", "_", "a", "d", "d", "r", "e", "s", "s">>
F_DOMAIN == <<"d", "o", "m", "a", "i", "n">>
F_FIRST == <<"f", "i", "r", "s", "t", "_", "s", "e", "e", "n">>
F_LAST == <<"l", "a", "s", "t", "_", "s", "e", "e", "n">>
fieldnames == <<F_IP, F_DOMAIN, F_FIRST, F_LAST>>

(***************************************************************************)
(* datetime.now().strftime("%Y-%m-%d %H:%M:%S") for a clock that reads     *)
(* second t of 2024-01-01 00:00 local time.                                *)
(***************************************************************************)
Strftime(t) ==
    <<"2", "0", "2", "4", "-", "0", "1", "-", "0", "1", " ",
      "0", "0", ":", "0", "0", ":">>
    \o <<Digits[((t \div 10) % 10) + 1], Digits[(t % 10) + 1]>>

(***************************************************************************)
(* csv.writer, excel dialect (QUOTE_MINIMAL, doublequote, "\r\n").         *)
(***************************************************************************)
NeedsQuote(c) == c \in {DELIM, QUOTE, CR, LF}

\* a writer that does not double the quotes inside a quoted field
EscapeFieldRaw(s) == s

RECURSIVE EscapeField(_)
EscapeField(s) ==
    IF s = <<>> THEN <<>>
    ELSE (IF Head(s) = QUOTE THEN <<QUOTE, QUOTE>> ELSE <<Head(s)>>)
         \o EscapeField(Tail(s))

\* one field as the writer emits it; None is written as the empty field
WriteField(v, alone) ==
    LET s == IF v = None THEN <<>> ELSE v
    IN  IF (\E i \in 1..Len(s) : NeedsQuote(s[i])) \/ (s = <<>> /\ alone)
        THEN <<QUOTE>> \o EscapeField(s) \o <<QUOTE>>
        ELSE s

RECURSIVE JoinFields(_, _)
JoinFields(row, alone) ==
    IF row = <<>> THEN <<>>
    ELSE WriteField(Head(row), alone)
         \o (IF Len(row) > 1 THEN <<DELIM>> ELSE <<>>)
         \o JoinFields(Tail(row), alone)

WriteRow(row) == JoinFields(row, Len(row) = 1) \o <<CR, LF>>

(***************************************************************************)
(* csv.reader over a file opened with newline='': the file iterator cuts   *)
(* lines after "\n", "\r\n" or a lone "\r" (and at the end of the file);   *)
(* the reader feeds every character of a line, then EOL, to its state      *)
(* machine.                                                                *)
(***************************************************************************)
LineEndsAt(text, i) ==
    \/ i = Len(text)
    \/ text[i] = LF
    \/ text[i] = CR /\ text[i + 1] # LF

ParseReset == [state |-> "START_RECORD", field |-> <<>>, fields |-> <<>>,
               rows |-> <<>>, err |-> FALSE]

SaveField(ps) == [ps EXCEPT !.fields = Append(@, ps.field), !.field = <<>>]
AddChar(ps, c) == [ps EXCEPT !.field = Append(@, c)]
AfterEnd(c) == IF c = EOL THEN "START_RECORD" ELSE "EAT_CRNL"

StartField(ps, c) ==
    IF c \in {LF, CR, EOL} THEN [SaveField(ps) EXCEPT !.state = AfterEnd(c)]
    ELSE IF c = QUOTE THEN [ps EXCEPT !.state = "IN_QUOTED_FIELD"]
    ELSE IF c = DELIM THEN [SaveField(ps) EXCEPT !.state = "START_FIELD"]
    ELSE [AddChar(ps, c) EXCEPT !.state = "IN_FIELD"]

ParseProcessChar(ps, c) ==
    CASE ps.state = "START_RECORD" ->
            IF c = EOL THEN ps
            ELSE IF c \in {LF, CR} THEN [ps EXCEPT !.state = "EAT_CRNL"]
            ELSE StartField(ps, c)
      [] ps.state = "START_FIELD" -> StartField(ps, c)
      [] ps.state = "IN_FIELD" ->
            IF c \in {LF, CR, EOL} THEN [SaveField(ps) EXCEPT !.state = AfterEnd(c)]
            ELSE IF c = DELIM THEN [SaveField(ps) EXCEPT !.state = "START_FIELD"]
            ELSE AddChar(ps, c)
      [] ps.state = "IN_QUOTED_FIELD" ->
            IF c = EOL THEN ps
            ELSE IF c = QUOTE THEN [ps EXCEPT !.state = "QUOTE_IN_QUOTED_FIELD"]
            ELSE AddChar(ps, c)
      [] ps.state = "QUOTE_IN_QUOTED_FIELD" ->
            IF c = QUOTE THEN [AddChar(ps, c) EXCEPT !.state = "IN_QUOTED_FIELD"]
            ELSE IF c = DELIM THEN [SaveField(ps) EXCEPT !.state = "START_FIELD"]
            ELSE IF c \in {LF, CR, EOL}
                 THEN [SaveField(ps) EXCEPT !.state = AfterEnd(c)]
            ELSE [AddChar(ps, c) EXCEPT !.state = "IN_FIELD"]
      [] ps.state = "EAT_CRNL" ->
            IF c \in {LF, CR} THEN ps
            ELSE IF c = EOL THEN [ps EXCEPT !.state = "START_RECORD"]
            ELSE [ps EXCEPT !.err = TRUE]

\* Reader_iternext: a record is complete when an EOL leaves START_RECORD
ReaderStep(ps, c) ==
    LET q == ParseProcessChar(ps, c)
    IN  IF c = EOL /\ q.state = "START_RECORD"
        THEN [q EXCEPT !.rows = Append(@, q.fields), !.fields = <<>>]
        ELSE q

\* the character at i and, when a line ends there, the EOL after it
ReaderAt(ps, text, i) ==
    LET q == ReaderStep(ps, text[i])
    IN  IF LineEndsAt(text, i) THEN ReaderStep(q, EOL) ELSE q

\* the characters lo .. hi in order, up to a csv.Error (halving the range
\* keeps the evaluation shallow)
RECURSIVE ReaderRun(_, _, _, _)
ReaderRun(ps, text, lo, hi) ==
    IF lo > hi THEN ps
    ELSE IF lo = hi THEN ReaderAt(ps, text, lo)
    ELSE LET mid == (lo + hi) \div 2
             left == ReaderRun(ps, text, lo, mid)
         IN  IF left.err THEN left ELSE ReaderRun(left, text, mid + 1, hi)

\* the rows csv.reader yields for a file text (end of input saves a pending field)
CsvReader(text) ==
    LET ps == ReaderRun(ParseReset, text, 1, Len(text))
    IN  IF ps.state # "START_RECORD" /\ (ps.field # <<>> \/ ps.state = "IN_QUOTED_FIELD")
        THEN [rows |-> Append(ps.rows, Append(ps.fields, ps.field)), err |-> ps.err]
        ELSE [rows |-> ps.rows, err |-> ps.err]

(***************************************************************************)
(* csv.DictReader: the first row gives the field names; empty rows are     *)
(* skipped; a row shorter than the header gets None for the missing keys.  *)
(***************************************************************************)
MaxOf(S) == CHOOSE m \in S : \A n \in S : n <= m

HasKey(header, name) == \E i \in 1..Len(header) : header[i] = name

RowGet(header, row, name) ==
    LET i == MaxOf({j \in 1..Len(header) : header[j] = name})
    IN  IF i <= Len(row) THEN row[i] ELSE None

(***************************************************************************)
(* self.existing_ips: a dict keyed by address, kept as the sequence of its *)
(* items in insertion order.                                               *)
(***************************************************************************)
Keys(store) == {store[i].ip_address : i \in 1..Len(store)}

Get(store, ip) == store[CHOOSE i \in 1..Len(store) : store[i].ip_address = ip]

IPRecord(ip, domain, first_seen, last_seen) ==
    [ip_address |-> ip, domain |-> domain,
     first_seen |-> first_seen, last_seen |-> last_seen]

\* a store that adds an item even when its key is already there
SetItemAppends(store, item) == Append(store, item)

\* store[ip] = item: an existing key keeps its place, a new key goes last
SetItem(store, item) ==
    IF item.ip_address \in Keys(store)
    THEN [i \in 1..Len(store) |->
            IF store[i].ip_address = item.ip_address THEN item ELSE store[i]]
    ELSE Append(store, item)

RECURSIVE RowsToStore(_, _, _)
RowsToStore(header, rows, store) ==
    IF rows = <<>> THEN store
    ELSE IF Head(rows) = <<>> THEN RowsToStore(header, Tail(rows), store)
    ELSE RowsToStore(header, Tail(rows),
            SetItem(store, IPRecord(RowGet(header, Head(rows), F_IP),
                                    RowGet(header, Head(rows), F_DOMAIN),
                                    RowGet(header, Head(rows), F_FIRST),
                                    RowGet(header, Head(rows), F_LAST))))

NoFile == <<"ENOENT">>        \* the output file does not exist

\* open(OUTPUT_FILE) and the csv.reader over it, or FileNotFoundError
OpenFile(f) ==
    IF f = NoFile THEN [found |-> FALSE, reader |-> CsvReader(<<>>)]
    ELSE [found |-> TRUE, reader |-> CsvReader(f)]

\* does read_existing_ips raise (csv.Error, or KeyError on a foreign header)
ReadRaises(o) ==
    /\ o.found
    /\ \/ o.reader.err
       \/ /\ \E i \in 2..Len(o.reader.rows) : o.reader.rows[i] # <<>>
          /\ \E n \in {F_IP, F_DOMAIN, F_FIRST, F_LAST} : ~HasKey(o.reader.rows[1], n)

\* a reader that keeps only the last row of the file
ReadExistingIpsLastRowOnly(o) ==
    IF ~o.found \/ Len(o.reader.rows) < 2 THEN <<>>
    ELSE RowsToStore(o.reader.rows[1], <<o.reader.rows[Len(o.reader.rows)]>>, <<>>)

\* the dict read_existing_ips builds from the opened file
ReadExistingIps(o) ==
    IF ~o.found \/ o.reader.rows = <<>> THEN <<>>
    ELSE RowsToStore(o.reader.rows[1], Tail(o.reader.rows), <<>>)

RECURSIVE WriteRows(_)
WriteRows(store) ==
    IF store = <<>> THEN <<>>
    ELSE WriteRow(<<Head(store).ip_address, Head(store).domain,
                    Head(store).first_seen, Head(store).last_seen>>)
         \o WriteRows(Tail(store))

\* the text write_ips_to_csv leaves in the file
WriteIpsToCsv(store) == WriteRow(fieldnames) \o WriteRows(store)

(***************************************************************************)
(* json_flip_to_list: resolve is the JSON object as the sequence of its    *)
(* (domain, address list) items.                                           *)
(***************************************************************************)
RECURSIVE FlipKey(_, _)
FlipKey(key, vals) ==
    IF vals = <<>> THEN <<>>
    ELSE <<[ip_address |-> Head(vals), domain |-> key]>> \o FlipKey(key, Tail(vals))

RECURSIVE JsonFlipToList(_)
JsonFlipToList(old_json) ==
    IF old_json = <<>> THEN <<>>
    ELSE FlipKey(Head(old_json).key, Head(old_json).vals)
         \o JsonFlipToList(Tail(old_json))

(***************************************************************************)
(* update_ip_records: the loop over new_ips with one current_date.         *)
(***************************************************************************)
\* a merge that stamps a known address as if it were new
UpdateEntryAlwaysInserts(store, entry, current_date) ==
    SetItem(store, IPRecord(entry.ip_address, entry.domain, current_date, current_date))

\* a merge that also takes the observed domain for a known address
UpdateEntryTakesDomain(store, entry, current_date) ==
    IF entry.ip_address \in Keys(store)
    THEN SetItem(store, [Get(store, entry.ip_address) EXCEPT
                            !.last_seen = current_date, !.domain = entry.domain])
    ELSE SetItem(store, IPRecord(entry.ip_address, entry.domain,
                                 current_date, current_date))

UpdateEntry(store, entry, current_date) ==
    IF entry.ip_address \in Keys(store)
    THEN SetItem(store, [Get(store, entry.ip_address) EXCEPT !.last_seen = current_date])
    ELSE SetItem(store, IPRecord(entry.ip_address, entry.domain,
                                 current_date, current_date))

\* a merge that walks new_ips from its end
RECURSIVE UpdateIpRecordsReversed(_, _, _)
UpdateIpRecordsReversed(store, new_ips, current_date) ==
    IF new_ips = <<>> THEN store
    ELSE UpdateEntry(UpdateIpRecordsReversed(store, Tail(new_ips), current_date),
                     Head(new_ips), current_date)

RECURSIVE UpdateIpRecords(_, _, _)
UpdateIpRecords(store, new_ips, current_date) ==
    IF new_ips = <<>> THEN store
    ELSE UpdateIpRecords(UpdateEntry(store, Head(new_ips), current_date),
                         Tail(new_ips), current_date)

(***************************************************************************)
(* Inputs: what the provider can publish and what the clock can read.      *)
(***************************************************************************)
Addrs == {<<"1">>, <<"2">>}
Domains == {<<"a">>, <<"b">>}
Times == 0..MaxTime
Procs == {1, 2}               \* manager processes; Spec runs only the first

SeqsUpTo(S, n) == UNION {[1..k -> S] : k \in 0..n}

RECURSIVE TotalVals(_)
TotalVals(m) == IF m = <<>> THEN 0 ELSE Len(Head(m).vals) + TotalVals(Tail(m))

\* the "resolve" objects: distinct domains, at most MaxObs addresses in all
ResolveMaps ==
    {m \in SeqsUpTo([key : Domains, vals : SeqsUpTo(Addrs, MaxObs)], Cardinality(Domains)) :
        /\ \A i, j \in 1..Len(m) : i # j => m[i].key # m[j].key
        /\ TotalVals(m) <= MaxObs}

\* what urlopen / ZipFile / archive.read / json.loads / ["resolve"] can raise
FetchErrors == {"URLError", "BadZipFile", "KeyError: dns.json",
                "JSONDecodeError", "KeyError: resolve"}

Responses == [ok : {TRUE}, resolve : ResolveMaps]
             \cup [ok : {FALSE}, error : FetchErrors]

(***************************************************************************)
(* process: the four calls in order; pc[p] is the call p makes next.       *)
(***************************************************************************)
\* a process that writes the file before it loads and merges
AfterWritesFirst(call) ==
    CASE call = "download_vpn_servers" -> "write_ips_to_csv"
      [] call = "write_ips_to_csv" -> "read_existing_ips"
      [] call = "read_existing_ips" -> "update_ip_records"
      [] call = "update_ip_records" -> "return"

\* a process that does not load the file
AfterSkipsRead(call) ==
    CASE call = "download_vpn_servers" -> "update_ip_records"
      [] call = "read_existing_ips" -> "update_ip_records"
      [] call = "update_ip_records" -> "write_ips_to_csv"
      [] call = "write_ips_to_csv" -> "return"

After(call) ==
    CASE call = "download_vpn_servers" -> "read_existing_ips"
      [] call = "read_existing_ips" -> "update_ip_records"
      [] call = "update_ip_records" -> "write_ips_to_csv"
      [] call = "write_ips_to_csv" -> "return"

VARIABLES
    file,           \* text of OUTPUT_FILE, or NoFile
    pc,             \* pc[p]: next call of process, "return" or "raise"
    raised,         \* raised[p]: the exception that ended the run, or "-"
    calls,          \* calls[p]: the calls of this run that have returned
    runs,           \* runs[p]: number of the current run of p
    new_ips,        \* new_ips[p]: local of process
    existing_ips,   \* existing_ips[p]: self.existing_ips
    current_date,   \* current_date[p]: local of update_ip_records, once set
    before,         \* before[p]: existing_ips[p] on entry to the last merge
    born,           \* born[a]: current_date of the merge that first inserted a
    written,        \* the store the last write_ips_to_csv put in the file
    misread,        \* a read raised or returned another store than was written
    lost,           \* a write dropped or regressed a record of the store before
    overlap,        \* two runs were in progress at the same time
    pass1           \* the store and date after a first merge that was repeated

vars == <<file, pc, raised, calls, runs, new_ips, existing_ips, current_date,
          before, born, written, misread, lost, overlap, pass1>>

InRun(p) == pc[p] \in {"read_existing_ips", "update_ip_records", "write_ips_to_csv"}

ObservedIps(ips) == {ips[i].ip_address : i \in 1..Len(ips)}

\* writing new over a file holding old loses something old held
Clobbers(old, new, ips) ==
    \E i \in 1..Len(old) :
        \/ old[i].ip_address \notin Keys(new)
        \/ /\ old[i].ip_address \in Keys(new)
           /\ LET n == Get(new, old[i].ip_address)
              IN  \/ n.domain # old[i].domain
                  \/ n.first_seen # old[i].first_seen
                  \/ /\ old[i].ip_address \notin ObservedIps(ips)
                     /\ n.last_seen # old[i].last_seen

Init ==
    /\ file = NoFile
    /\ pc = [p \in Procs |-> "download_vpn_servers"]
    /\ raised = [p \in Procs |-> "-"]
    /\ calls = [p \in Procs |-> <<>>]
    /\ runs = [p \in Procs |-> 1]
    /\ new_ips = [p \in Procs |-> <<>>]
    /\ existing_ips = [p \in Procs |-> <<>>]
    /\ current_date = [p \in Procs |-> None]
    /\ before = [p \in Procs |-> <<>>]
    /\ born = [a \in Addrs |-> None]
    /\ written = <<>>
    /\ misread = FALSE
    /\ lost = FALSE
    /\ overlap = FALSE
    /\ pass1 = <<>>

\* main: a new run starts with a fresh manager (existing_ips = {})
Main(p) ==
    /\ pc[p] \in {"return", "raise"}
    /\ runs[p] < MaxRuns
    /\ runs' = [runs EXCEPT ![p] = @ + 1]
    /\ pc' = [pc EXCEPT ![p] = "download_vpn_servers"]
    /\ raised' = [raised EXCEPT ![p] = "-"]
    /\ calls' = [calls EXCEPT ![p] = <<>>]
    /\ new_ips' = [new_ips EXCEPT ![p] = <<>>]
    /\ existing_ips' = [existing_ips EXCEPT ![p] = <<>>]
    /\ current_date' = [current_date EXCEPT ![p] = None]
    /\ before' = [before EXCEPT ![p] = <<>>]
    /\ UNCHANGED <<file, born, written, misread, lost, overlap, pass1>>

\* new_ips = self.download_vpn_servers(): any failure aborts the run
Fetch(p, resps) ==
    /\ pc[p] = "download_vpn_servers"
    /\ \E resp \in resps :
         IF resp.ok
         THEN /\ new_ips' = [new_ips EXCEPT ![p] = JsonFlipToList(resp.resolve)]
              /\ pc' = [pc EXCEPT ![p] = After("download_vpn_servers")]
              /\ calls' = [calls EXCEPT ![p] = Append(@, "download_vpn_servers")]
              /\ raised' = raised
         ELSE /\ pc' = [pc EXCEPT ![p] = "raise"]
              /\ raised' = [raised EXCEPT ![p] = resp.error]
              /\ UNCHANGED <<new_ips, calls>>
    /\ overlap' = (overlap \/ \E q \in Procs \ {p} : InRun(q))
    /\ UNCHANGED <<file, runs, existing_ips, current_date, before, born, written, misread,
                   lost, pass1>>

DownloadVpnServers(p) == Fetch(p, Responses)

\* self.read_existing_ips()
ReadExisting(p) ==
    /\ pc[p] = "read_existing_ips"
    /\ \E o \in {OpenFile(file)} :
         IF ReadRaises(o)
         THEN /\ pc' = [pc EXCEPT ![p] = "raise"]
              /\ raised' = [raised EXCEPT ![p] = "read_existing_ips"]
              /\ misread' = TRUE
              /\ UNCHANGED <<existing_ips, calls>>
         ELSE /\ existing_ips' = [existing_ips EXCEPT ![p] = ReadExistingIps(o)]
              /\ pc' = [pc EXCEPT ![p] = After("read_existing_ips")]
              /\ calls' = [calls EXCEPT ![p] = Append(@, "read_existing_ips")]
              /\ misread' = (misread \/ ReadExistingIps(o) # written)
              /\ raised' = raised
    /\ UNCHANGED <<file, runs, new_ips, current_date, before, born, written, lost,
                   overlap, pass1>>

\* self.update_ip_records(new_ips): datetime.now() is read once, at entry
UpdateRecords(p) ==
    /\ pc[p] = "update_ip_records"
    /\ \E t \in Times :
         LET merged == UpdateIpRecords(existing_ips[p], new_ips[p], Strftime(t))
         IN  /\ current_date' = [current_date EXCEPT ![p] = Strftime(t)]
             /\ existing_ips' = [existing_ips EXCEPT ![p] = merged]
             /\ born' = [a \in Addrs |->
                            IF born[a] = None /\ a \in Keys(merged) \ Keys(existing_ips[p])
                            THEN Strftime(t) ELSE born[a]]
    /\ before' = [before EXCEPT ![p] = existing_ips[p]]
    /\ pc' = [pc EXCEPT ![p] = After("update_ip_records")]
    /\ calls' = [calls EXCEPT ![p] = Append(@, "update_ip_records")]
    /\ UNCHANGED <<file, raised, runs, new_ips, written, misread, lost, overlap, pass1>>

\* self.write_ips_to_csv(), after which process returns and its locals are gone
WriteCsv(p) ==
    /\ pc[p] = "write_ips_to_csv"
    /\ file' = WriteIpsToCsv(existing_ips[p])
    /\ written' = existing_ips[p]
    /\ lost' = (lost \/ Clobbers(written, existing_ips[p], new_ips[p]))
    /\ pc' = [pc EXCEPT ![p] = After("write_ips_to_csv")]
    /\ calls' = [calls EXCEPT ![p] = Append(@, "write_ips_to_csv")]
    /\ new_ips' = [new_ips EXCEPT ![p] = <<>>]
    /\ current_date' = [current_date EXCEPT ![p] = None]
    /\ before' = [before EXCEPT ![p] = <<>>]
    /\ UNCHANGED <<raised, runs, existing_ips, born, misread, overlap, pass1>>

Process(p) ==
    \/ Main(p)
    \/ DownloadVpnServers(p)
    \/ ReadExisting(p)
    \/ UpdateRecords(p)
    \/ WriteCsv(p)

\* the intended use: one scheduled run after the other
Next == Process(1)

Spec == Init /\ [][Next]_vars

(***************************************************************************)
(* Two invocations on the same OUTPUT_FILE, no locking: each manager runs  *)
(* process once, over a file that an earlier run may have left.            *)
(***************************************************************************)
ResponsesConc == {r \in Responses : r.ok => TotalVals(r.resolve) <= MaxObsConc}

EarlierStores ==
    {<<>>} \cup {<<IPRecord(a, d, Strftime(0), Strftime(0))>> : a \in Addrs, d \in Domains}

InitConc ==
    /\ \E store \in EarlierStores :
         /\ written = store
         /\ file = WriteIpsToCsv(store)
    /\ pc = [p \in Procs |-> "download_vpn_servers"]
    /\ raised = [p \in Procs |-> "-"]
    /\ calls = [p \in Procs |-> <<>>]
    /\ runs = [p \in Procs |-> 1]
    /\ new_ips = [p \in Procs |-> <<>>]
    /\ existing_ips = [p \in Procs |-> <<>>]
    /\ current_date = [p \in Procs |-> None]
    /\ before = [p \in Procs |-> <<>>]
    /\ born = [a \in Addrs |-> IF a \in Keys(written) THEN Strftime(0) ELSE None]
    /\ misread = FALSE
    /\ lost = FALSE
    /\ overlap = FALSE
    /\ pass1 = <<>>

DownloadConc(p) == Fetch(p, ResponsesConc)

ProcessConc(p) ==
    \/ DownloadConc(p)
    \/ ReadExisting(p)
    \/ UpdateRecords(p)
    \/ WriteCsv(p)

NextConc == \E p \in Procs : ProcessConc(p)

SpecConc == InitConc /\ [][NextConc]_vars

(***************************************************************************)
(* update_ip_records called a second time with the same new_ips, as a test *)
(* of the merge does: the runs of Spec, up to a repeated merge.            *)
(***************************************************************************)
UpdateAgain(p) ==
    /\ pc[p] = "write_ips_to_csv"
    /\ pass1 = <<>>
    /\ \E t \in Times :
         /\ current_date' = [current_date EXCEPT ![p] = Strftime(t)]
         /\ existing_ips' = [existing_ips EXCEPT ![p] =
                                UpdateIpRecords(existing_ips[p], new_ips[p], Strftime(t))]
    /\ pass1' = <<[store |-> existing_ips[p], date |-> current_date[p]]>>
    /\ before' = [before EXCEPT ![p] = existing_ips[p]]
    /\ UNCHANGED <<file, pc, raised, calls, runs, new_ips, born, written, misread, lost,
                   overlap>>

RunOnce == pass1 = <<>> /\ Process(1)

NextMerge == RunOnce \/ UpdateAgain(1)

SpecMerge == Init /\ [][NextMerge]_vars

(***************************************************************************)
(* write_ips_to_csv by one manager, then read_existing_ips by another, on  *)
(* stores whose fields are any non-empty comma-free texts.                 *)
(***************************************************************************)
FieldChars == {"a", QUOTE, CR, LF}
FieldStrs == SeqsUpTo(FieldChars, MaxFieldLen) \ {<<>>}
PlainStrs == {<<"a">>, <<QUOTE>>}
SecondRecord == IPRecord(<<"z">>, <<"a">>, <<"a">>, <<"a">>)

CsvStores ==
    LET firsts == {IPRecord(ip, d, f, l) :
                     ip \in FieldStrs, d \in PlainStrs, f \in PlainStrs, l \in FieldStrs}
    IN  {<<r>> : r \in firsts} \cup {<<r, SecondRecord>> : r \in firsts}

InitCsv ==
    /\ file = NoFile
    /\ pc = [p \in Procs |-> IF p = 1 THEN "write_ips_to_csv" ELSE "read_existing_ips"]
    /\ raised = [p \in Procs |-> "-"]
    /\ calls = [p \in Procs |-> <<>>]
    /\ runs = [p \in Procs |-> 1]
    /\ new_ips = [p \in Procs |-> <<>>]
    /\ \E store \in CsvStores : existing_ips = [p \in Procs |-> IF p = 1 THEN store ELSE <<>>]
    /\ current_date = [p \in Procs |-> None]
    /\ before = [p \in Procs |-> <<>>]
    /\ born = [a \in Addrs |-> None]
    /\ written = <<>>
    /\ misread = FALSE
    /\ lost = FALSE
    /\ overlap = FALSE
    /\ pass1 = <<>>

SaveStore == WriteCsv(1)
LoadSaved == file # NoFile /\ ReadExisting(2)

NextCsv == SaveStore \/ LoadSaved

SpecCsv == InitCsv /\ [][NextCsv]_vars

(***************************************************************************)
(* Python's order on the timestamp strings: by code point, left to right.  *)
(***************************************************************************)
Ord(c) ==
    CASE c = " " -> 32
      [] c = "-" -> 45
      [] c = ":" -> 58
      [] OTHER -> 47 + (CHOOSE i \in 1..10 : Digits[i] = c)

StrLeq(s, t) ==
    LET diff == {i \in 1..Len(s) : i > Len(t) \/ s[i] # t[i]}
    IN  IF diff = {} THEN TRUE
        ELSE LET i == CHOOSE j \in diff : \A k \in diff : j <= k
             IN  i <= Len(t) /\ Ord(s[i]) < Ord(t[i])

(***************************************************************************)
(* Properties.  AfterMerge(p): update_ip_records has returned in p and     *)
(* write_ips_to_csv has not started; before[p] is the store it was given.  *)
(***************************************************************************)
AfterMerge(p) == pc[p] = "write_ips_to_csv"

FirstAt(ips, a) == CHOOSE i \in 1..Len(ips) :
                      /\ ips[i].ip_address = a
                      /\ \A j \in 1..(i - 1) : ips[j].ip_address # a

LastAt(ips, a) == CHOOSE i \in 1..Len(ips) :
                     /\ ips[i].ip_address = a
                     /\ \A j \in (i + 1)..Len(ips) : ips[j].ip_address # a

\* C1: a merge leaves first_seen of every address it was given as it was, and
\* in every store of every run first_seen of an address is the current_date
\* of the merge that first inserted it.
C1_FirstSeenImmutable ==
    \A p \in Procs :
        /\ AfterMerge(p) =>
              \A a \in Keys(before[p]) :
                  /\ a \in Keys(existing_ips[p])
                  /\ Get(existing_ips[p], a).first_seen = Get(before[p], a).first_seen
        /\ \A a \in Keys(existing_ips[p]) :
              Get(existing_ips[p], a).first_seen = born[a]

\* a later run, at another clock reading, has merged an address it loaded
C1_Witness ==
    /\ AfterMerge(1)
    /\ runs[1] > 1
    /\ \E a \in Keys(before[1]) \cap ObservedIps(new_ips[1]) :
          /\ current_date[1] # Get(before[1], a).first_seen
          /\ Get(existing_ips[1], a).first_seen = born[a]

\* C2: an address that was in the store and is observed has, after the merge,
\* last_seen = current_date and the domain it had before, whatever domain the
\* observation carries.
C2_KnownAddressTouched ==
    \A p \in Procs :
        AfterMerge(p) =>
            \A a \in Keys(before[p]) \cap ObservedIps(new_ips[p]) :
                /\ Get(existing_ips[p], a).last_seen = current_date[p]
                /\ Get(existing_ips[p], a).domain = Get(before[p], a).domain

\* a known address was observed under another domain at another time
C2_Witness ==
    /\ AfterMerge(1)
    /\ \E i \in 1..Len(new_ips[1]) :
          /\ new_ips[1][i].ip_address \in Keys(before[1])
          /\ new_ips[1][i].domain # Get(before[1], new_ips[1][i].ip_address).domain
          /\ current_date[1] # Get(before[1], new_ips[1][i].ip_address).last_seen
          /\ Get(existing_ips[1], new_ips[1][i].ip_address).last_seen = current_date[1]

\* C3: an address that was not in the store and is observed gets exactly one
\* record, stamped first_seen = last_seen = current_date, with the domain of
\* its first observation in the list.
C3_NewAddressInserted ==
    \A p \in Procs :
        AfterMerge(p) =>
            \A a \in ObservedIps(new_ips[p]) \ Keys(before[p]) :
                /\ Cardinality({i \in 1..Len(existing_ips[p]) :
                                    existing_ips[p][i].ip_address = a}) = 1
                /\ Get(existing_ips[p], a).first_seen = current_date[p]
                /\ Get(existing_ips[p], a).last_seen = current_date[p]
                /\ Get(existing_ips[p], a).domain
                       = new_ips[p][FirstAt(new_ips[p], a)].domain

\* two domains listed the same new address
C3_Witness ==
    /\ AfterMerge(1)
    /\ \E i, j \in 1..Len(new_ips[1]) :
          /\ i < j
          /\ new_ips[1][i].ip_address = new_ips[1][j].ip_address
          /\ new_ips[1][i].domain # new_ips[1][j].domain
          /\ new_ips[1][i].ip_address \notin Keys(before[1])
          /\ Get(existing_ips[1], new_ips[1][i].ip_address).domain = new_ips[1][i].domain

\* C4: in every store of every run, first_seen <= last_seen for every record.
C4_FirstSeenLeqLastSeen ==
    \A p \in Procs :
        \A i \in 1..Len(existing_ips[p]) :
            StrLeq(existing_ips[p][i].first_seen, existing_ips[p][i].last_seen)

\* C5: after a merge, the domain of every observed address is the domain of
\* its most recent observation.
C5_DomainIsLatestObserved ==
    \A p \in Procs :
        AfterMerge(p) =>
            \A a \in ObservedIps(new_ips[p]) :
                Get(existing_ips[p], a).domain = new_ips[p][LastAt(new_ips[p], a)].domain

\* C6: read_existing_ips after write_ips_to_csv returns, without raising, a
\* mapping with the addresses written and the same fields for each.
C6_RoundTrip ==
    (pc[1] = "return" /\ pc[2] # "read_existing_ips") =>
        /\ raised[2] = "-"
        /\ Keys(existing_ips[2]) = Keys(existing_ips[1])
        /\ Len(existing_ips[2]) = Len(existing_ips[1])
        /\ \A a \in Keys(existing_ips[1]) :
              Get(existing_ips[2], a) = Get(existing_ips[1], a)

\* a two-row store with a quote and a line break in its fields was read back
C6_Witness ==
    /\ pc[1] = "return"
    /\ pc[2] = "update_ip_records"
    /\ Len(existing_ips[2]) = 2
    /\ existing_ips[2][1].ip_address = <<QUOTE, LF>>
    /\ existing_ips[2][1].last_seen = <<"a", CR>>

\* C7: a second merge of the same list at another current_date keeps the set
\* of addresses, the record count and every domain and first_seen; last_seen
\* becomes the second date for the observed addresses and stays elsewhere.
C7_SecondMergeOnlyLastSeen ==
    (pass1 # <<>> /\ current_date[1] # pass1[1].date) =>
        /\ Keys(existing_ips[1]) = Keys(pass1[1].store)
        /\ Len(existing_ips[1]) = Len(pass1[1].store)
        /\ \A a \in Keys(pass1[1].store) :
              /\ Get(existing_ips[1], a).domain = Get(pass1[1].store, a).domain
              /\ Get(existing_ips[1], a).first_seen = Get(pass1[1].store, a).first_seen
              /\ Get(existing_ips[1], a).last_seen =
                    IF a \in ObservedIps(new_ips[1]) THEN current_date[1]
                    ELSE Get(pass1[1].store, a).last_seen

\* the list was merged twice, at two dates, into a store with another address
C7_Witness ==
    /\ pass1 # <<>>
    /\ current_date[1] # pass1[1].date
    /\ new_ips[1] # <<>>
    /\ Keys(existing_ips[1]) \ ObservedIps(new_ips[1]) # {}
    /\ \E a \in ObservedIps(new_ips[1]) :
          Get(existing_ips[1], a).last_seen # Get(pass1[1].store, a).last_seen

\* C8: a merge removes no address and leaves the records of the addresses it
\* does not observe as loaded; every read returns the store that was written
\* last; and no write drops an address of the store written before it, or
\* changes the record of one the run did not observe.
C8_HistoryKept ==
    /\ \A p \in Procs :
          AfterMerge(p) =>
              /\ Keys(before[p]) \subseteq Keys(existing_ips[p])
              /\ \A a \in Keys(before[p]) \ ObservedIps(new_ips[p]) :
                    Get(existing_ips[p], a) = Get(before[p], a)
    /\ ~misread
    /\ ~lost

\* a later run has written the file and kept, with its older last_seen, the
\* record of an address it did not observe
C8_Witness ==
    /\ pc[1] = "return"
    /\ runs[1] > 1
    /\ Len(written) = 2
    /\ written = existing_ips[1]
    /\ written[1].last_seen # written[2].last_seen

ProcessCalls == <<"download_vpn_servers", "read_existing_ips",
                  "update_ip_records", "write_ips_to_csv">>

\* C9: the calls of a run are made in the order of process, each at most
\* once; a run whose download raised made no other call and its failing step
\* left the file as it was; the file changes only in the write that follows
\* download, read and merge.
C9_FailedFetchKeepsFile ==
    /\ [](\A p \in Procs :
            /\ calls[p] = SubSeq(ProcessCalls, 1, Len(calls[p]))
            /\ raised[p] \in FetchErrors => (pc[p] = "raise" /\ calls[p] = <<>>))
    /\ [][/\ \A p \in Procs :
               (raised[p]' \in FetchErrors /\ raised[p] \notin FetchErrors)
                   => file' = file
          /\ file' # file =>
               \E p \in Procs : /\ calls[p] = SubSeq(ProcessCalls, 1, 3)
                                /\ calls[p]' = ProcessCalls]_vars

\* a download failed in a run that found a file left by an earlier run
C9_Witness ==
    /\ pc[1] = "raise"
    /\ raised[1] \in FetchErrors
    /\ runs[1] > 1
    /\ Len(written) > 0

\* C10: a write loses from the file a record or an update of another run
\* only if two runs were in progress at the same time.
C10_LostOnlyIfOverlap == lost => overlap

\* both runs returned and the file lacks what one of them wrote
C10_Witness ==
    /\ lost
    /\ pc[1] = "return"
    /\ pc[2] = "return"

====
